---- MODULE Spec2Model ----
(***************************************************************************)
(* gimtex: the scan pipeline of src/scanner.rs (discovery, glob filter,    *)
(* sort, parallel per-file processing, payload assembly, delivery) and the *)
(* SecretScanner redaction chain, as a state machine.                      *)
(*                                                                         *)
(* Text is a sequence of one-character strings; the bytes that are not     *)
(* printable get names: NUL (0x00), ESC (0x1b), BAD (0xff, never valid in  *)
(* UTF-8).                                                                 *)
(***************************************************************************)
EXTENDS Integers, Sequences, FiniteSets, TLC

NUL == "<NUL>"
ESC == "<ESC>"
BAD == "<FF>"

Lowers == {"a", "b", "c", "d", "e", "f", "g", "h", "i", "j", "k", "l", "m",
           "n", "o", "p", "q", "r", "s", "t", "u", "v", "w", "x", "y", "z"}
Uppers == {"A", "B", "C", "D", "E", "F", "G", "H", "I", "J", "K", "L", "M",
           "N", "O", "P", "Q", "R", "S", "T", "U", "V", "W", "X", "Y", "Z"}
Digits == {"0", "1", "2", "3", "4", "5", "6", "7", "8", "9"}

LowerCase == ("A" :> "a") @@ ("B" :> "b") @@ ("C" :> "c") @@ ("D" :> "d") @@ ("E" :> "e") @@ ("F" :> "f") @@ ("G" :> "g") @@
             ("H" :> "h") @@ ("I" :> "i") @@ ("J" :> "j") @@ ("K" :> "k") @@ ("L" :> "l") @@ ("M" :> "m") @@ ("N" :> "n") @@
             ("O" :> "o") @@ ("P" :> "p") @@ ("Q" :> "q") @@ ("R" :> "r") @@ ("S" :> "s") @@ ("T" :> "t") @@ ("U" :> "u") @@
             ("V" :> "v") @@ ("W" :> "w") @@ ("X" :> "x") @@ ("Y" :> "y") @@ ("Z" :> "z")

\* (?i): a character of the text is compared after case folding.
ToLower(c) == IF c \in Uppers THEN LowerCase[c] ELSE c

\* The character classes of the three regexes (scanner.rs:23-25).
SecretClass == Lowers \cup Uppers \cup Digits \cup {"_", "-"}
AlnumClass == Lowers \cup Uppers \cup Digits
AwsClass == Digits \cup Uppers
SpaceClass == {" ", "\t", "\n", "\r"}
QuoteClass == {"'", "\""}
SepClass == {":", "="}

\* Repetition counts of the regexes.
MinSecretLen == 8
MinOpenAiLen == 20
AwsTailLen == 16

Concat(ss) == IF Len(ss) = 0 THEN << >> ELSE
              LET F[i \in 1..Len(ss)] == IF i = 1 THEN ss[1] ELSE F[i - 1] \o ss[i]
              IN F[Len(ss)]

\* The literal w stands in s at position i.
HasAt(s, i, w) == /\ i >= 1
                  /\ i + Len(w) - 1 <= Len(s)
                  /\ \A k \in 1..Len(w) : s[i + k - 1] = w[k]

HasAtCI(s, i, w) == /\ i >= 1
                    /\ i + Len(w) - 1 <= Len(s)
                    /\ \A k \in 1..Len(w) : ToLower(s[i + k - 1]) = w[k]

\* First position at or after i that is not in class (Len(s)+1 when the run
\* reaches the end): where a greedy class* stops.
RunEnd(s, i, class) ==
    LET stops == {j \in i..Len(s) : s[j] \notin class}
    IN IF stops = {} THEN Len(s) + 1
       ELSE CHOOSE j \in stops : \A k \in stops : j <= k

\* (api_?key|auth_?token|access_?key|secret|password), case-insensitive.
KeyWords == <<<<"a", "p", "i", "k", "e", "y">>,
              <<"a", "p", "i", "_", "k", "e", "y">>,
              <<"a", "u", "t", "h", "t", "o", "k", "e", "n">>,
              <<"a", "u", "t", "h", "_", "t", "o", "k", "e", "n">>,
              <<"a", "c", "c", "e", "s", "s", "k", "e", "y">>,
              <<"a", "c", "c", "e", "s", "s", "_", "k", "e", "y">>,
              <<"s", "e", "c", "r", "e", "t">>,
              <<"p", "a", "s", "s", "w", "o", "r", "d">>>>

\* Length of the key name standing at i, 0 when there is none. No key word is
\* a prefix of another, so at most one alternative matches at i.
KeyLenAt(s, i) ==
    LET hits == {k \in 1..Len(KeyWords) : HasAtCI(s, i, KeyWords[k])}
    IN IF hits = {} THEN 0 ELSE Len(KeyWords[CHOOSE k \in hits : TRUE])

NoMatch == [found |-> FALSE, start |-> 0, end |-> 0, vstart |-> 0, vend |-> 0]

\* generic_keys anchored at i: key, \s*, [:=], \s*, quote, the secret
\* ([a-zA-Z0-9_\-]{8,}), quote.  end and vend are exclusive.
GenericAt(s, i) ==
    LET k == KeyLenAt(s, i)
        p1 == RunEnd(s, i + k, SpaceClass)
        p2 == RunEnd(s, p1 + 1, SpaceClass)
        v0 == p2 + 1
        v1 == RunEnd(s, v0, SecretClass)
    IN IF /\ k > 0
          /\ p1 <= Len(s) /\ s[p1] \in SepClass
          /\ p2 <= Len(s) /\ s[p2] \in QuoteClass
          /\ v1 - v0 >= MinSecretLen
          /\ v1 <= Len(s) /\ s[v1] \in QuoteClass
       THEN [found |-> TRUE, start |-> i, end |-> v1 + 1, vstart |-> v0, vend |-> v1]
       ELSE NoMatch

OpenAiHead == <<"s", "k", "-">>
OpenAiTail == <<"T", "3", "B", "l", "b", "k", "F", "J">>

\* openai_keys anchored at i: sk-, [a-zA-Z0-9]{20,} (greedy, backtracking to
\* the last place the tail fits), T3BlbkFJ.
OpenAiAt(s, i) ==
    LET b == i + Len(OpenAiHead)
        r == RunEnd(s, b, AlnumClass)
        fits == {e \in (b + MinOpenAiLen)..(r - Len(OpenAiTail)) : HasAt(s, e, OpenAiTail)}
    IN IF HasAt(s, i, OpenAiHead) /\ fits # {}
       THEN LET e == CHOOSE x \in fits : \A y \in fits : y <= x
            IN [found |-> TRUE, start |-> i, end |-> e + Len(OpenAiTail), vstart |-> i, vend |-> e + Len(OpenAiTail)]
       ELSE NoMatch

AwsHead == <<"A", "K", "I", "A">>

\* aws_keys anchored at i: AKIA, [0-9A-Z]{16}.
AwsAt(s, i) ==
    LET b == i + Len(AwsHead)
    IN IF /\ HasAt(s, i, AwsHead)
          /\ b + AwsTailLen - 1 <= Len(s)
          /\ \A k \in b..(b + AwsTailLen - 1) : s[k] \in AwsClass
       THEN [found |-> TRUE, start |-> i, end |-> b + AwsTailLen, vstart |-> i, vend |-> b + AwsTailLen]
       ELSE NoMatch

\* The three compiled regexes of SecretScanner, by name.
DetectAt(det, s, i) ==
    IF det = "generic" THEN GenericAt(s, i)
    ELSE IF det = "openai" THEN OpenAiAt(s, i)
    ELSE AwsAt(s, i)

\* Position of the leftmost match of a detector at or after from, 0 when the
\* rest of the text holds none (the regex iterator of is_match/replace_all).
FirstMatchFrom(det, s, from) ==
    LET hits == {i \in from..Len(s) : DetectAt(det, s, i).found}
    IN IF hits = {} THEN 0 ELSE CHOOSE i \in hits : \A k \in hits : i <= k

IsMatch(det, s) == FirstMatchFrom(det, s, 1) # 0

RECURSIVE StrReplaceFrom(_, _, _, _)
\* str::replace: every non-overlapping occurrence of needle, left to right.
StrReplaceFrom(h, needle, rep, from) ==
    LET hits == {i \in from..Len(h) : HasAt(h, i, needle)}
    IN IF hits = {} THEN SubSeq(h, from, Len(h))
       ELSE LET i == CHOOSE x \in hits : \A y \in hits : x <= y
            IN SubSeq(h, from, i - 1) \o rep \o StrReplaceFrom(h, needle, rep, i + Len(needle))

StrReplace(h, needle, rep) == StrReplaceFrom(h, needle, rep, 1)

\* colored: "...".red().bold() is ESC[1;31m ... ESC[0m when colorization is on
\* (a terminal, or CLICOLOR_FORCE) and the bare text when it is off.
RedBold(t, colorize) ==
    IF colorize THEN <<ESC, "[", "1", ";", "3", "1", "m">> \o t \o <<ESC, "[", "0", "m">>
    ELSE t

\* colored: "...".white().dimmed()
WhiteDimmed(t, colorize) ==
    IF colorize THEN <<ESC, "[", "2", ";", "3", "7", "m">> \o t \o <<ESC, "[", "0", "m">>
    ELSE t

\* Variant of GenericToken: the placeholder has no brackets around it.
GenericTokenBare(colorize) == RedBold(<<"R", "E", "D", "A", "C", "T", "E", "D", "_", "S", "E", "C", "R", "E", "T">>, colorize)

GenericToken(colorize) == RedBold(<<"[", "R", "E", "D", "A", "C", "T", "E", "D", "_", "S", "E", "C", "R", "E", "T", "]">>, colorize)
OpenAiToken(colorize) == RedBold(<<"[", "R", "E", "D", "A", "C", "T", "E", "D", "_", "O", "P", "E", "N", "A", "I", "_", "K", "E", "Y", "]">>, colorize)
AwsToken(colorize) == RedBold(<<"[", "R", "E", "D", "A", "C", "T", "E", "D", "_", "A", "W", "S", "_", "K", "E", "Y", "]">>, colorize)

\* The closure of the generic detector: the secret is replaced wherever it
\* occurs in the whole match (whole.replace(secret, token)).
GenericRedactMatch(whole, secret, colorize) ==
    StrReplace(whole, secret, GenericToken(colorize))

RECURSIVE GenericReplaceFrom(_, _, _)
\* generic_keys.replace_all with the closure above.
GenericReplaceFrom(s, from, colorize) ==
    LET i == FirstMatchFrom("generic", s, from)
    IN IF i = 0 THEN SubSeq(s, from, Len(s))
       ELSE LET m == GenericAt(s, i)
            IN SubSeq(s, from, i - 1)
               \o GenericRedactMatch(SubSeq(s, m.start, m.end - 1),
                                     SubSeq(s, m.vstart, m.vend - 1), colorize)
               \o GenericReplaceFrom(s, m.end, colorize)

RECURSIVE ReplaceAllFrom(_, _, _, _)
\* Regex::replace_all with a fixed replacement text.
ReplaceAllFrom(det, s, rep, from) ==
    LET i == FirstMatchFrom(det, s, from)
    IN IF i = 0 THEN SubSeq(s, from, Len(s))
       ELSE SubSeq(s, from, i - 1) \o rep \o ReplaceAllFrom(det, s, rep, DetectAt(det, s, i).end)

\* The three detector blocks of SecretScanner::scan, in their order.
ScanGeneric(s, colorize) ==
    IF IsMatch("generic", s) THEN GenericReplaceFrom(s, 1, colorize) ELSE s

ScanOpenAi(s, colorize) ==
    IF IsMatch("openai", s) THEN ReplaceAllFrom("openai", s, OpenAiToken(colorize), 1) ELSE s

ScanAws(s, colorize) ==
    IF IsMatch("aws", s) THEN ReplaceAllFrom("aws", s, AwsToken(colorize), 1) ELSE s

\* SecretScanner::scan: the sanitized text.
SecretScan(content, colorize) ==
    CHOOSE r \in {ScanAws(o, colorize) :
                    o \in {ScanOpenAi(g, colorize) :
                             g \in {ScanGeneric(content, colorize)}}} : TRUE

\* ---------------------------------------------------------------------------
\* process_file
\* ---------------------------------------------------------------------------

\* Size of the probe buffer of the binary check.
ProbeLen == 1024

Min(a, b) == IF a < b THEN a ELSE b

\* str::lines: the text is cut after every "\n"; the "\n" and a "\r" right
\* before it are dropped; text after the last "\n" is a line of its own.
LineEnds(s) == {j \in 1..Len(s) : s[j] = "\n"} \cup (IF Len(s) > 0 /\ s[Len(s)] # "\n" THEN {Len(s) + 1} ELSE {})

Lines(s) ==
    LET ends == LineEnds(s)
        n == Cardinality(ends)
        End[k \in 0..n] == IF k = 0 THEN 0
                           ELSE CHOOSE j \in ends : j > End[k - 1] /\ \A x \in ends : x > End[k - 1] => j <= x
        Body(k) == LET a == End[k - 1] + 1
                       b == End[k] - 1
                   IN IF End[k] <= Len(s) /\ b >= a /\ s[b] = "\r"
                      THEN SubSeq(s, a, b - 1) ELSE SubSeq(s, a, b)
    IN [k \in 1..n |-> Body(k)]

DigitChars == <<"0", "1", "2", "3", "4", "5", "6", "7", "8", "9">>

RECURSIVE Decimal(_)
Decimal(n) == IF n < 10 THEN <<DigitChars[n + 1]>> ELSE Decimal(n \div 10) \o <<DigitChars[(n % 10) + 1]>>

\* Width of the line-number column.
NumberWidth == 4

\* format!("{:>4} |", n)
LineNum(n) ==
    LET d == Decimal(n)
        pad == IF Len(d) < NumberWidth THEN [k \in 1..(NumberWidth - Len(d)) |-> " "] ELSE << >>
    IN pad \o d \o <<" ", "|">>

\* The line-indexing loop: every line becomes "<num> <line>\n".
IndexLines(content, colorize) ==
    LET ls == Lines(content)
    IN Concat([k \in 1..Len(ls) |-> WhiteDimmed(LineNum(k), colorize) \o <<" ">> \o ls[k] \o <<"\n">>])

\* Stand-in for the cl100k_base encoder (tiktoken_rs, not part of this
\* repository): one token per maximal run of characters of one kind. Like the
\* encoder it is a function of the whole text and is not additive over
\* concatenation.
CharKind(c) == IF c \in Lowers \cup Uppers THEN "alpha"
               ELSE IF c \in Digits THEN "digit"
               ELSE IF c \in SpaceClass THEN "space"
               ELSE c

TokenCount(s) == Cardinality({i \in 1..Len(s) : i = 1 \/ CharKind(s[i]) # CharKind(s[i - 1])})

\* Option<(String, usize)>; Pending marks a slot no worker has written yet.
None == [status |-> "none"]
Some(text, tokens) == [status |-> "some", text |-> text, tokens |-> tokens]
Pending == [status |-> "pending"]

\* Variant of Probe: the last byte of the buffer is not looked at.
ProbeShort(bytes) == SubSeq(bytes, 1, Min(ProbeLen - 1, Len(bytes)))

\* The probe: what file.read(&mut buffer) leaves in buffer[..n].
Probe(bytes) == SubSeq(bytes, 1, Min(ProbeLen, Len(bytes)))

IsBinary(bytes) == LET buffer == Probe(bytes) IN \E k \in 1..Len(buffer) : buffer[k] = NUL

\* std::fs::read_to_string succeeds on valid UTF-8 only.
IsUtf8(bytes) == \A k \in 1..Len(bytes) : bytes[k] # BAD

\* process_file on a file [path, bytes, openable].
ProcessFile(f, show_numbers, colorize) ==
    IF ~f.openable THEN None
    ELSE IF IsBinary(f.bytes) THEN None
    ELSE IF ~IsUtf8(f.bytes) THEN None
    ELSE CHOOSE r \in {Some(indexed, TokenCount(indexed)) :
                         indexed \in {IF show_numbers THEN IndexLines(scanned, colorize) ELSE scanned :
                                       scanned \in {SecretScan(f.bytes, colorize)}}} : TRUE

\* ---------------------------------------------------------------------------
\* Paths, the glob filter, the sort
\* ---------------------------------------------------------------------------

\* A path is the sequence of its components, a component a sequence of
\* characters.  ByteCode gives the byte value the orderings compare.
ByteCode == ("-" :> 45) @@ ("." :> 46) @@ ("/" :> 47) @@ ("_" :> 95) @@ ("0" :> 48) @@ ("1" :> 49) @@
            ("2" :> 50) @@ ("3" :> 51) @@ ("4" :> 52) @@ ("5" :> 53) @@ ("6" :> 54) @@ ("7" :> 55) @@
            ("8" :> 56) @@ ("9" :> 57) @@ ("A" :> 65) @@ ("B" :> 66) @@ ("C" :> 67) @@ ("D" :> 68) @@
            ("E" :> 69) @@ ("F" :> 70) @@ ("G" :> 71) @@ ("H" :> 72) @@ ("I" :> 73) @@ ("J" :> 74) @@
            ("K" :> 75) @@ ("L" :> 76) @@ ("M" :> 77) @@ ("N" :> 78) @@ ("O" :> 79) @@ ("P" :> 80) @@
            ("Q" :> 81) @@ ("R" :> 82) @@ ("S" :> 83) @@ ("T" :> 84) @@ ("U" :> 85) @@ ("V" :> 86) @@
            ("W" :> 87) @@ ("X" :> 88) @@ ("Y" :> 89) @@ ("Z" :> 90) @@ ("a" :> 97) @@ ("b" :> 98) @@
            ("c" :> 99) @@ ("d" :> 100) @@ ("e" :> 101) @@ ("f" :> 102) @@ ("g" :> 103) @@ ("h" :> 104) @@
            ("i" :> 105) @@ ("j" :> 106) @@ ("k" :> 107) @@ ("l" :> 108) @@ ("m" :> 109) @@ ("n" :> 110) @@
            ("o" :> 111) @@ ("p" :> 112) @@ ("q" :> 113) @@ ("r" :> 114) @@ ("s" :> 115) @@ ("t" :> 116) @@
            ("u" :> 117) @@ ("v" :> 118) @@ ("w" :> 119) @@ ("x" :> 120) @@ ("y" :> 121) @@ ("z" :> 122)

RECURSIVE JoinPath(_)
\* Path::display / to_str: the components joined by "/".
JoinPath(p) == IF Len(p) = 0 THEN << >>
               ELSE IF Len(p) = 1 THEN p[1]
               ELSE p[1] \o <<"/">> \o JoinPath(Tail(p))

\* Byte-wise lexicographic order of two components (OsStr / String Ord).
CompLess(a, b) ==
    \E k \in 1..(Len(b)) :
        /\ \A j \in 1..(k - 1) : j <= Len(a) /\ a[j] = b[j]
        /\ \/ k = Len(a) + 1
           \/ k <= Len(a) /\ ByteCode[a[k]] < ByteCode[b[k]]

\* Path Ord: component by component.
PathLess(p, q) ==
    \E k \in 1..(Len(q)) :
        /\ \A j \in 1..(k - 1) : j <= Len(p) /\ p[j] = q[j]
        /\ \/ k = Len(p) + 1
           \/ k <= Len(p) /\ CompLess(p[k], q[k])

RECURSIVE InsertSorted(_, _)
InsertSorted(sorted, p) ==
    IF Len(sorted) = 0 THEN <<p>>
    ELSE IF PathLess(p, Head(sorted)) THEN <<p>> \o sorted
    ELSE <<Head(sorted)>> \o InsertSorted(Tail(sorted), p)

RECURSIVE SortPaths(_)
\* final_files.sort() (stable, ascending by Path Ord).
SortPaths(ps) == IF Len(ps) = 0 THEN << >>
                 ELSE InsertSorted(SortPaths(SubSeq(ps, 1, Len(ps) - 1)), ps[Len(ps)])

\* Pattern::new: three or more "*" in a row, a "**" that is not a whole path
\* component, and a "[" without its closing "]" are errors.
StarRunAt(pat, i) == RunEnd(pat, i, {"*"}) - i

GlobValid(pat) ==
    \A i \in 1..Len(pat) :
        /\ pat[i] = "*" /\ (i = 1 \/ pat[i - 1] # "*") =>
              LET n == StarRunAt(pat, i)
              IN \/ n = 1
                 \/ /\ n = 2
                    /\ (i = 1 \/ pat[i - 1] = "/")
                    /\ (i + 2 > Len(pat) \/ pat[i + 2] = "/")
        /\ pat[i] = "[" =>
              \E j \in (i + 2)..Len(pat) : pat[j] = "]" /\ (pat[i + 1] = "!" => j >= i + 3)

RECURSIVE GlobMatchFrom(_, _, _, _)
\* Pattern::matches with the default MatchOptions, for patterns of literal
\* characters, "?" and "*": "*" and "?" also match "/" and a leading ".".
GlobMatchFrom(pat, i, s, j) ==
    IF i > Len(pat) THEN j > Len(s)
    ELSE IF pat[i] = "*" THEN \E k \in j..(Len(s) + 1) : GlobMatchFrom(pat, i + 1, s, k)
    ELSE IF j > Len(s) THEN FALSE
    ELSE (pat[i] = "?" \/ pat[i] = s[j]) /\ GlobMatchFrom(pat, i + 1, s, j + 1)

\* Pattern::matches_path
MatchesPath(pat, p) == GlobMatchFrom(pat, 1, JoinPath(p), 1)

NoFilter == <<"<none>">>

\* The filter loop of scan: the paths that pass, in discovery order.
ApplyFilter(raw, pattern) ==
    SelectSeq(raw, LAMBDA p : pattern = NoFilter \/ MatchesPath(pattern, p))

\* Variant of RetainFiles: the sort is left out.
RetainFilesUnsorted(raw, pattern) == ApplyFilter(raw, pattern)

\* "Determinism: Sort files alphabetically"
RetainFiles(raw, pattern) == SortPaths(ApplyFilter(raw, pattern))

\* ---------------------------------------------------------------------------
\* Tree view, project context, payload text
\* ---------------------------------------------------------------------------

\* colored: ESC[<codes>m text ESC[0m, or the bare text when colorization is off.
Paint(t, codes, colorize) ==
    IF colorize THEN <<ESC, "[">> \o codes \o <<"m">> \o t \o <<ESC, "[", "0", "m">> ELSE t

CyanBold == <<"1", ";", "3", "6">>
White == <<"3", "7">>
Green == <<"3", "2">>
Bold == <<"1">>
YellowBold == <<"1", ";", "3", "3">>
Grey == <<"3", "8", ";", "2", ";", "1", "0", "0", ";", "1", "0", "0", ";", "1", "0", "0">>
WhiteDim == <<"2", ";", "3", "7">>

\* The connectors of TreeNode::render, as their UTF-8 bytes.
BoxLast == <<"<E2>", "<94>", "<94>">>
BoxMid == <<"<E2>", "<94>", "<9C>">>
BoxBar == <<"<E2>", "<94>", "<82>">>
BoxDash == <<"<E2>", "<94>", "<80>">>
ConnLast == BoxLast \o BoxDash \o BoxDash \o <<" ">>
ConnMid == BoxMid \o BoxDash \o BoxDash \o <<" ">>
PrefixLast == <<" ", " ", " ", " ">>
PrefixMid == BoxBar \o <<" ", " ", " ">>

\* The keys of a BTreeMap<String, _> in iteration order.
RECURSIVE SortedNames(_)
SortedNames(names) ==
    IF names = {} THEN << >>
    ELSE LET lo == CHOOSE a \in names : \A b \in names : a = b \/ CompLess(a, b)
         IN <<lo>> \o SortedNames(names \ {lo})

RECURSIVE RenderTree(_, _, _)
\* TreeNode::render of the trie that holds the (relative, non-empty) paths.
RenderTree(paths, prefix, colorize) ==
    LET names == SortedNames({p[1] : p \in paths})
        Kids(name) == {Tail(p) : p \in {q \in paths : q[1] = name /\ Len(q) > 1}}
        Entry(i) ==
            LET last == i = Len(names)
                shown == IF Kids(names[i]) = {} THEN Paint(names[i], White, colorize)
                         ELSE Paint(names[i], CyanBold, colorize)
            IN prefix \o (IF last THEN ConnLast ELSE ConnMid) \o shown \o <<"\n">>
               \o RenderTree(Kids(names[i]), prefix \o (IF last THEN PrefixLast ELSE PrefixMid), colorize)
    IN Concat([i \in 1..Len(names) |-> Entry(i)])

IsPrefix(a, b) == Len(a) <= Len(b) /\ SubSeq(b, 1, Len(a)) = a

\* path.strip_prefix(root).unwrap_or(path)
StripRoot(p, root) == IF IsPrefix(root, p) THEN SubSeq(p, Len(root) + 1, Len(p)) ELSE p

\* generate_tree_view
TreeView(files, root, colorize) ==
    LET rel == {StripRoot(files[i], root) : i \in 1..Len(files)}
    IN Paint(JoinPath(root), CyanBold, colorize) \o <<"\n">>
       \o RenderTree({p \in rel : Len(p) > 0}, << >>, colorize)

TreeTitle == <<"P", "R", "O", "J", "E", "C", "T", " ", "S", "T", "R", "U", "C", "T", "U", "R", "E", ":", "\n", "=", "=", "=", "=", "=", "=", "=", "=", "=", "=", "=", "=", "=", "=", "=", "=", "=", "=", "\n">>
ContentsTitle == <<"\n", "\n", "F", "I", "L", "E", " ", "C", "O", "N", "T", "E", "N", "T", "S", ":", "\n", "=", "=", "=", "=", "=", "=", "=", "=", "=", "=", "=", "=", "=", "=", "=", "=", "=", "=", "\n", "\n">>
ContextTitle == <<"P", "R", "O", "J", "E", "C", "T", " ", "C", "O", "N", "T", "E", "X", "T", ":", "\n", "=", "=", "=", "=", "=", "=", "=", "=", "=", "=", "=", "=", "=", "=", "=", "=", "\n">>

\* The one manifest the model knows: a Cargo.toml with a package name and no
\* dependency table.
ManifestPath == <<<<"C", "a", "r", "g", "o", ".", "t", "o", "m", "l">>>>
ManifestBytes == <<"[", "p", "a", "c", "k", "a", "g", "e", "]", "\n", "n", "a", "m", "e", " ", "=", " ", "\"", "g", "\"", "\n">>

\* scan_dependencies for that manifest: the summary line of the Rust branch.
ManifestSummary(colorize) ==
    Paint(<<"[", "+", "]">>, Green, colorize) \o <<" ", "P", "r", "o", "j", "e", "c", "t", ":", " ">> \o Paint(<<"g">>, Bold, colorize) \o <<" ", "(", "R", "u", "s", "t", ")", "\n">>

\* The header of a markdown block.
MarkdownHeader(p, count, colorize) ==
    Paint(<<"-", "-", "-">>, Grey, colorize) \o <<" ", "F", "i", "l", "e", ":", " ">> \o Paint(JoinPath(p), YellowBold, colorize)
    \o <<" ", "(">> \o Paint(Decimal(count) \o <<" ", "t", "o", "k", "e", "n", "s">>, WhiteDim, colorize)
    \o <<")", " ">> \o Paint(<<"-", "-", "-">>, Grey, colorize)

\* One file block of the payload, as scan pushes it.
BlockText(b, format, colorize) ==
    IF format = "xml"
    THEN <<"<", "f", "i", "l", "e", " ", "p", "a", "t", "h", "=", "\"">> \o JoinPath(b.path) \o <<"\"", " ", "t", "o", "k", "e", "n", "s", "=", "\"">> \o Decimal(b.tokens) \o <<"\"", ">", "\n">>
         \o b.text \o <<"\n", "<", "/", "f", "i", "l", "e", ">", "\n">>
    ELSE MarkdownHeader(b.path, b.tokens, colorize) \o <<"\n">> \o b.text \o <<"\n", "\n">>

\* The payload string: output is kept as the sequence of the pieces pushed.
PieceText(piece, format, colorize) ==
    IF piece.kind = "context" THEN ContextTitle \o ManifestSummary(colorize) \o <<"\n", "\n">>
    ELSE IF piece.kind = "tree" THEN TreeTitle \o piece.text \o ContentsTitle
    ELSE BlockText(piece, format, colorize)

PayloadText(out, format, colorize) ==
    Concat([i \in 1..Len(out) |-> PieceText(out[i], format, colorize)])

\* ---------------------------------------------------------------------------
\* The environment of one run: the files under the root, the arguments
\* ---------------------------------------------------------------------------

\* Bounds of the model.
MaxFiles == 2
MaxSizeArg == 16
NumWorkers == 2

\* Files the root may hold: [rel, bytes, openable].
Catalogue == <<
    [rel |-> ManifestPath, bytes |-> ManifestBytes, openable |-> TRUE],
    [rel |-> <<<<"a">>, <<"b", ".", "r", "s">>>>, bytes |-> <<"a", "\r", "\n", "b">>, openable |-> TRUE],
    [rel |-> <<<<"a", "-", "b">>, <<"x", ".", "r", "s">>>>, bytes |-> <<"a", "p", "i", "_", "k", "e", "y", " ", "=", " ", "'", "a", "b", "c", "d", "e", "f", "g", "h", "1", "'", "\n">>, openable |-> TRUE],
    [rel |-> <<<<"A", ".", "m", "d">>>>, bytes |-> <<"x", NUL, "y">>, openable |-> TRUE],
    [rel |-> <<<<"b", "i", "g", ".", "r", "s">>>>, bytes |-> [k \in 1..(ProbeLen + 2) |-> IF k = ProbeLen THEN NUL ELSE "x"], openable |-> TRUE],
    [rel |-> <<<<"b", ".", "r", "s">>>>, bytes |-> <<"o", "k", BAD>>, openable |-> TRUE],
    [rel |-> <<<<"t", "a", "r", "g", "e", "t">>, <<"t", ".", "r", "s">>>>, bytes |-> <<"t", "\n">>, openable |-> FALSE] >>

\* The glob patterns of --filter; the last one does not compile.
Patterns == {<<"*", ".", "r", "s">>, <<"a", "*">>, <<"[", "a">>}

\* The scan root: main passes "." when no path is given.
Root == << <<".">> >>

\* Directory names get_walk_files prunes.
PrunedNames == {<<"n", "o", "d", "e", "_", "m", "o", "d", "u", "l", "e", "s">>, <<".", "g", "i", "t">>, <<"t", "a", "r", "g", "e", "t">>, <<"d", "i", "s", "t">>, <<"b", "u", "i", "l", "d">>, <<"v", "e", "n", "d", "o", "r">>, <<".", "n", "e", "x", "t">>}

Args == [diff : BOOLEAN, filter : Patterns \cup {NoFilter}, format : {"markdown", "xml"},
         numbers : BOOLEAN, copy : BOOLEAN, max_size : {MaxSizeArg}]

VARIABLES
    config,        \* the Args of the run
    colorize,      \* colored's SHOULD_COLORIZE for the run
    fs,            \* indices of the Catalogue files that exist under the root
    pc,            \* position of scan
    raw_files,     \* scan's raw_files
    discovered,    \* the set of paths discovery returned (history)
    queried,       \* the discovery that was executed: "none", "walk", "git" (history)
    filter_pattern,\* scan's compiled filter, NoFilter for None
    final_files,   \* scan's final_files
    started,       \* indices of final_files a worker has taken
    finished,      \* indices of final_files whose process_file has returned
    results,       \* processed_results, Pending where not yet written
    out_of_order,  \* some file finished before a file that precedes it (history)
    output,        \* scan's output, as the sequence of its pieces
    final_token_count,
    stdout,        \* what println! wrote: <<payload>> or << >>
    clipboard,     \* what set_text stored: <<payload>> or << >>
    metrics,       \* what print_dashboard reported: <<[tokens, chars]>> or << >>
    ret,           \* scan's result: "running", "Ok", "GlobError", "GitError"
    content,       \* SecretScanner::scan: its argument
    sanitized,     \* SecretScanner::scan: its local
    found_secret,  \* SecretScanner::scan: its local
    scan_pc,       \* position of SecretScanner::scan
    pass           \* 1: scan of a text; 2: scan of what pass 1 returned

envVars == <<config, colorize, fs>>
scanVars == <<pc, raw_files, discovered, queried, filter_pattern, final_files, started, finished, results,
              out_of_order, output, final_token_count, stdout, clipboard, metrics, ret>>
redactVars == <<content, sanitized, found_secret, scan_pc, pass>>
vars == <<envVars, scanVars, redactVars>>

\* The path discovery reports for a file: the walk joins it to the root,
\* git diff --name-only prints it as it is.
WalkPath(i) == Root \o Catalogue[i].rel
GitPath(i) == Catalogue[i].rel

\* filter_entry of get_walk_files: no entry named like a pruned directory is
\* yielded or descended into.
IsPruned(rel) == \E k \in 1..Len(rel) : rel[k] \in PrunedNames

\* get_walk_files: the regular files the walk reaches.
WalkFiles(files) == {WalkPath(i) : i \in {j \in files : ~IsPruned(Catalogue[j].rel)}}

\* get_git_files after a successful git diff: the listed paths that exist.
GitFiles(files) == {GitPath(i) : i \in files}

\* All orders in which a set of paths can be reported.
Orders(S) == {s \in [1..Cardinality(S) -> S] : \A a, b \in 1..Cardinality(S) : a # b => s[a] # s[b]}

\* The file a retained path names.
FileOf(p) == Catalogue[CHOOSE i \in 1..Len(Catalogue) : p = WalkPath(i) \/ p = GitPath(i)]

IdleRedact ==
    /\ content = << >> /\ sanitized = << >> /\ found_secret = FALSE
    /\ scan_pc = "idle" /\ pass = 0

IdleScan ==
    /\ pc = "idle" /\ raw_files = << >> /\ discovered = {} /\ queried = "none"
    /\ filter_pattern = NoFilter /\ final_files = << >>
    /\ started = {} /\ finished = {} /\ results = << >> /\ out_of_order = FALSE
    /\ output = << >> /\ final_token_count = 0
    /\ stdout = << >> /\ clipboard = << >> /\ metrics = << >> /\ ret = "running"

Init ==
    /\ config \in Args
    /\ colorize \in BOOLEAN
    /\ fs \in {S \in SUBSET (1..Len(Catalogue)) : Cardinality(S) <= MaxFiles}
    /\ pc = "start" /\ raw_files = << >> /\ discovered = {} /\ queried = "none"
    /\ filter_pattern = NoFilter /\ final_files = << >>
    /\ started = {} /\ finished = {} /\ results = << >> /\ out_of_order = FALSE
    /\ output = << >> /\ final_token_count = 0
    /\ stdout = << >> /\ clipboard = << >> /\ metrics = << >> /\ ret = "running"
    /\ IdleRedact

\* ---------------------------------------------------------------------------
\* scan
\* ---------------------------------------------------------------------------

\* "Strategy Selection", git-diff mode: get_git_files fails (git cannot be run,
\* exits non-zero, or prints bytes that are not UTF-8) and `?` returns the error.
DiscoverGitFail ==
    /\ pc = "start" /\ config.diff
    /\ queried' = "git"
    /\ ret' = "GitError"
    /\ pc' = "failed"
    /\ UNCHANGED <<envVars, redactVars, raw_files, discovered, filter_pattern, final_files,
                   started, finished, results, out_of_order, output, final_token_count,
                   stdout, clipboard, metrics>>

\* "Strategy Selection", git-diff mode, the query succeeds.
DiscoverGit ==
    /\ pc = "start" /\ config.diff
    /\ queried' = "git"
    /\ \E order \in Orders(GitFiles(fs)) : raw_files' = order
    /\ discovered' = GitFiles(fs)
    /\ pc' = "discovered"
    /\ UNCHANGED <<envVars, redactVars, filter_pattern, final_files, started, finished, results,
                   out_of_order, output, final_token_count, stdout, clipboard, metrics, ret>>

\* Variant of DiscoverWalk: the pattern is compiled before the walk, and a
\* pattern that does not compile ends the scan without walking.
DiscoverWalkPatternFirst ==
    /\ pc = "start" /\ ~config.diff
    /\ IF config.filter = NoFilter \/ GlobValid(config.filter)
       THEN /\ queried' = "walk"
            /\ \E order \in Orders(WalkFiles(fs)) : raw_files' = order
            /\ discovered' = WalkFiles(fs)
            /\ pc' = "discovered"
            /\ ret' = ret
       ELSE /\ ret' = "GlobError"
            /\ pc' = "failed"
            /\ UNCHANGED <<queried, raw_files, discovered>>
    /\ UNCHANGED <<envVars, redactVars, filter_pattern, final_files, started, finished, results,
                   out_of_order, output, final_token_count, stdout, clipboard, metrics>>

\* "Strategy Selection", full walk; the walk reports the files in any order.
DiscoverWalk ==
    /\ pc = "start" /\ ~config.diff
    /\ queried' = "walk"
    /\ \E order \in Orders(WalkFiles(fs)) : raw_files' = order
    /\ discovered' = WalkFiles(fs)
    /\ pc' = "discovered"
    /\ UNCHANGED <<envVars, redactVars, filter_pattern, final_files, started, finished, results,
                   out_of_order, output, final_token_count, stdout, clipboard, metrics, ret>>

\* Variant of CompileFilter: a pattern that does not compile is dropped and
\* the scan goes on without a filter.
CompileFilterLenient ==
    /\ pc = "discovered"
    /\ filter_pattern' = IF config.filter = NoFilter \/ GlobValid(config.filter)
                         THEN config.filter ELSE NoFilter
    /\ pc' = "compiled"
    /\ UNCHANGED <<envVars, redactVars, raw_files, discovered, queried, final_files, started,
                   finished, results, out_of_order, output, final_token_count, stdout,
                   clipboard, metrics, ret>>

\* "Filter Compilation": Pattern::new(p).context("Invalid glob pattern")?
CompileFilter ==
    /\ pc = "discovered"
    /\ IF config.filter = NoFilter \/ GlobValid(config.filter)
       THEN /\ filter_pattern' = config.filter
            /\ pc' = "compiled"
            /\ ret' = ret
       ELSE /\ filter_pattern' = filter_pattern
            /\ pc' = "failed"
            /\ ret' = "GlobError"
    /\ UNCHANGED <<envVars, redactVars, raw_files, discovered, queried, final_files, started,
                   finished, results, out_of_order, output, final_token_count, stdout,
                   clipboard, metrics>>

\* "Apply Filter & Collect final list" and the sort; raw_files is consumed.
FilterAndSort ==
    /\ pc = "compiled"
    /\ final_files' = RetainFiles(raw_files, filter_pattern)
    /\ raw_files' = << >>
    /\ pc' = "sorted"
    /\ UNCHANGED <<envVars, redactVars, discovered, queried, filter_pattern, started, finished,
                   results, out_of_order, output, final_token_count, stdout, clipboard,
                   metrics, ret>>

\* scan_dependencies finds the manifest at the root and can read it.
HasManifest(files) ==
    \E i \in files : Catalogue[i].rel = ManifestPath /\ Catalogue[i].bytes = ManifestBytes
                     /\ Catalogue[i].openable

\* "Context Mapping sequence": the project context, the tree view, the titles.
ContextAndTree ==
    /\ pc = "sorted"
    /\ output' = (IF HasManifest(fs) THEN <<[kind |-> "context"]>> ELSE << >>)
                 \o <<[kind |-> "tree", text |-> TreeView(final_files, Root, colorize)]>>
    /\ results' = [i \in 1..Len(final_files) |-> Pending]
    /\ pc' = "processing"
    /\ UNCHANGED <<envVars, redactVars, raw_files, discovered, queried, filter_pattern,
                   final_files, started, finished, out_of_order, final_token_count, stdout,
                   clipboard, metrics, ret>>

\* Variant of StoreResult: results are kept in the order they arrive.
StoreResultOnArrival(buf, i, r) ==
    LET free == {k \in 1..Len(buf) : buf[k].status = "pending"}
    IN [buf EXCEPT ![CHOOSE k \in free : \A j \in free : k <= j] = r]

\* collect(): the result of the i-th file goes to the i-th slot.
StoreResult(buf, i, r) == [buf EXCEPT ![i] = r]

\* A worker of the pool takes the i-th file.
WorkerStart(i) ==
    /\ pc = "processing"
    /\ i \in 1..Len(final_files) /\ i \notin started
    /\ Cardinality(started \ finished) < NumWorkers
    /\ started' = started \cup {i}
    /\ UNCHANGED <<envVars, redactVars, pc, raw_files, discovered, queried, filter_pattern,
                   final_files, finished, results, out_of_order, output, final_token_count,
                   stdout, clipboard, metrics, ret>>

\* process_file returns for the i-th file.
WorkerFinish(i) ==
    /\ pc = "processing"
    /\ i \in started \ finished
    /\ \E r \in {ProcessFile(f, config.numbers, colorize) : f \in {FileOf(final_files[i])}} :
          results' = StoreResult(results, i, r)
    /\ finished' = finished \cup {i}
    /\ out_of_order' = (out_of_order \/ \E j \in 1..(i - 1) : j \notin finished)
    /\ UNCHANGED <<envVars, redactVars, pc, raw_files, discovered, queried, filter_pattern,
                   final_files, started, output, final_token_count, stdout, clipboard,
                   metrics, ret>>

\* Variant of FileBlocks: the loop ends at the first file without a result.
FileBlocksUntilNone(files, res) ==
    LET bad == {i \in 1..Len(files) : res[i].status # "some"}
        n == IF bad = {} THEN Len(files) ELSE (CHOOSE i \in bad : \A j \in bad : i <= j) - 1
    IN [k \in 1..n |-> [kind |-> "file", path |-> files[k],
                         text |-> res[k].text, tokens |-> res[k].tokens]]

\* The zip loop: a block for every file whose result is Some, in list order.
FileBlocks(files, res) ==
    LET idx == SelectSeq([i \in 1..Len(files) |-> i], LAMBDA i : res[i].status = "some")
    IN [k \in 1..Len(idx) |-> [kind |-> "file", path |-> files[idx[k]],
                               text |-> res[idx[k]].text, tokens |-> res[idx[k]].tokens]]

\* Variant of FinalTokenCount: the per-file counts of the blocks are added up.
FinalTokenCountSummed(out, format, col) ==
    LET Sum[k \in 0..Len(out)] ==
            IF k = 0 THEN 0
            ELSE Sum[k - 1] + (IF out[k].kind = "file" THEN out[k].tokens ELSE 0)
    IN Sum[Len(out)]

\* "Tokenomics": bpe.encode_with_special_tokens(&output).len()
FinalTokenCount(out, format, col) ==
    CHOOSE n \in {TokenCount(payload) : payload \in {PayloadText(out, format, col)}} : TRUE

\* The parallel map has returned: blocks are appended, the payload is counted.
Assemble ==
    /\ pc = "processing"
    /\ finished = 1..Len(final_files)
    /\ output' = output \o FileBlocks(final_files, results)
    /\ final_token_count' = FinalTokenCount(output', config.format, colorize)
    /\ pc' = "assembled"
    /\ UNCHANGED <<envVars, redactVars, raw_files, discovered, queried, filter_pattern,
                   final_files, started, finished, results, out_of_order, stdout, clipboard,
                   metrics, ret>>

\* "Output": the clipboard when --copy is given (it may fail to open or to
\* take the text), stdout otherwise.
Deliver ==
    /\ pc = "assembled"
    /\ IF config.copy
       THEN /\ \E outcome \in {"copied", "set_text failed", "init failed"} :
                 clipboard' = IF outcome = "copied"
                              THEN <<PayloadText(output, config.format, colorize)>> ELSE << >>
            /\ stdout' = stdout
       ELSE /\ stdout' = <<PayloadText(output, config.format, colorize)>>
            /\ clipboard' = clipboard
    /\ pc' = "delivered"
    /\ UNCHANGED <<envVars, redactVars, raw_files, discovered, queried, filter_pattern,
                   final_files, started, finished, results, out_of_order, output,
                   final_token_count, metrics, ret>>

\* "Dashboard": print_dashboard, then Ok(()).
Dashboard ==
    /\ pc = "delivered"
    /\ metrics' = <<[tokens |-> final_token_count,
                     chars |-> Len(PayloadText(output, config.format, colorize))]>>
    /\ ret' = "Ok"
    /\ pc' = "done"
    /\ UNCHANGED <<envVars, redactVars, raw_files, discovered, queried, filter_pattern,
                   final_files, started, finished, results, out_of_order, output,
                   final_token_count, stdout, clipboard>>

Next ==
    \/ DiscoverGitFail
    \/ DiscoverGit
    \/ DiscoverWalk
    \/ CompileFilter
    \/ FilterAndSort
    \/ ContextAndTree
    \/ \E i \in 1..MaxFiles : WorkerStart(i)
    \/ \E i \in 1..MaxFiles : WorkerFinish(i)
    \/ Assemble
    \/ Deliver
    \/ Dashboard

Spec == Init /\ [][Next]_vars

\* ---------------------------------------------------------------------------
\* SecretScanner::scan on its own: a text is scanned, then what the scan
\* returned is scanned again.
\* ---------------------------------------------------------------------------

\* Bound: a text is the concatenation of at most MaxTokens of the Tokens.
MaxTokens == 4

Tokens == <<
    <<"P", "a", "s", "s", "w", "o", "r", "d">>,
    <<"=", "\"">>,
    <<" ", ":", " ", "'">>,
    <<"\"">>,
    <<"a", "b", "c", "d", "e", "f", "g">>,
    <<"A", "K", "I", "A", "0", "1", "2", "3", "4", "5", "6", "7", "8", "9", "A", "B", "C", "D", "E", "F">>,
    <<"s", "k", "-", "a", "a", "a", "a", "a", "a", "a", "a", "a", "a", "a", "a", "a", "a", "a", "a", "a", "a", "a", "a", "T", "3", "B", "l", "b", "k", "F", "J">> >>

TokenSeqs == UNION {[1..n -> 1..Len(Tokens)] : n \in 0..MaxTokens}

TextOf(ts) == Concat([k \in 1..Len(ts) |-> Tokens[ts[k]]])

Texts == {TextOf(ts) : ts \in TokenSeqs}

InitRedact ==
    /\ config = [diff |-> FALSE, filter |-> NoFilter, format |-> "markdown",
                 numbers |-> FALSE, copy |-> FALSE, max_size |-> MaxSizeArg]
    /\ colorize \in BOOLEAN
    /\ fs = {}
    /\ IdleScan
    /\ content \in Texts
    /\ sanitized = content
    /\ found_secret = FALSE
    /\ scan_pc = "generic"
    /\ pass = 1

\* "Generic Keys"
StepGeneric ==
    /\ scan_pc = "generic"
    /\ sanitized' = ScanGeneric(sanitized, colorize)
    /\ found_secret' = (found_secret \/ IsMatch("generic", sanitized))
    /\ scan_pc' = "openai"
    /\ UNCHANGED <<envVars, scanVars, content, pass>>

\* "OpenAI Keys"
StepOpenAi ==
    /\ scan_pc = "openai"
    /\ sanitized' = ScanOpenAi(sanitized, colorize)
    /\ found_secret' = (found_secret \/ IsMatch("openai", sanitized))
    /\ scan_pc' = "aws"
    /\ UNCHANGED <<envVars, scanVars, content, pass>>

\* "AWS Keys", and the return of sanitized.
StepAws ==
    /\ scan_pc = "aws"
    /\ sanitized' = ScanAws(sanitized, colorize)
    /\ found_secret' = (found_secret \/ IsMatch("aws", sanitized))
    /\ scan_pc' = "returned"
    /\ UNCHANGED <<envVars, scanVars, content, pass>>

\* The returned text is handed to SecretScanner::scan again.
Rescan ==
    /\ scan_pc = "returned" /\ pass = 1
    /\ content' = sanitized
    /\ sanitized' = sanitized
    /\ found_secret' = FALSE
    /\ scan_pc' = "generic"
    /\ pass' = 2
    /\ UNCHANGED <<envVars, scanVars>>

NextRedact == StepGeneric \/ StepOpenAi \/ StepAws \/ Rescan

SpecRedact == InitRedact /\ [][NextRedact]_vars

\* ---------------------------------------------------------------------------
\* Properties
\* ---------------------------------------------------------------------------

AfterSort == {"sorted", "processing", "assembled", "delivered", "done"}
AfterAssembly == {"assembled", "delivered", "done"}
Errors == {"GlobError", "GitError"}

\* The file blocks of the payload, in payload order.
Blocks == SelectSeq(output, LAMBDA piece : piece.kind = "file")

NothingEmitted == stdout = << >> /\ clipboard = << >> /\ metrics = << >>

NulInProbe(bytes) == \E k \in 1..Len(bytes) : k <= ProbeLen /\ bytes[k] = NUL

\* The per-file soft failures: cannot be opened, binary, not UTF-8.
SoftFails(f) == ~f.openable \/ NulInProbe(f.bytes) \/ \E k \in 1..Len(f.bytes) : f.bytes[k] = BAD

\* C1: once the list is built, and before the tree is built or a file is
\* processed, final_files holds exactly the discovered paths that match the
\* configured glob (all of them without a glob), strictly ascending by path.
C1_RetainedFilteredSorted ==
    /\ pc \in AfterSort =>
         /\ \A i \in 1..Len(final_files) : final_files[i] \in discovered
         /\ {final_files[i] : i \in 1..Len(final_files)}
              = {p \in discovered : config.filter = NoFilter \/ MatchesPath(config.filter, p)}
         /\ \A i, j \in 1..Len(final_files) : i < j => PathLess(final_files[i], final_files[j])
    /\ (output # << >> \/ started # {}) => pc \in AfterSort

C1_Witness ==
    /\ pc = "processing" /\ started # {}
    /\ config.filter # NoFilter
    /\ Len(final_files) >= 2
    /\ Cardinality(discovered) >= 2

\* C2: whatever the order in which the workers finish, the blocks of the
\* payload are those of the files of final_files that process to Some, in the
\* order of final_files, each with the text and token count of its own file.
C2_BlocksInListOrder ==
    pc \in AfterAssembly =>
        LET kept == SelectSeq(final_files,
                        LAMBDA p : ProcessFile(FileOf(p), config.numbers, colorize).status = "some")
        IN /\ Len(Blocks) = Len(kept)
           /\ \A k \in 1..Len(kept) :
                 LET r == ProcessFile(FileOf(kept[k]), config.numbers, colorize)
                 IN /\ Blocks[k].path = kept[k]
                    /\ Blocks[k].text = r.text
                    /\ Blocks[k].tokens = r.tokens

C2_Witness ==
    /\ pc = "done" /\ out_of_order
    /\ Len(Blocks) >= 2
    /\ Blocks[1].text # Blocks[2].text

\* C3: a file that cannot be opened, is binary or is not UTF-8 yields no
\* block and does not end the scan: the scan fails only before any file is
\* processed, a finished scan returns Ok, and the payload then has exactly one
\* block for every other retained file.
C3_SoftFailureSkipsOnlyThatFile ==
    /\ pc = "failed" => started = {} /\ finished = {}
    /\ pc = "done" =>
         /\ ret = "Ok"
         /\ \A i \in 1..Len(final_files) :
               Cardinality({k \in 1..Len(Blocks) : Blocks[k].path = final_files[i]})
                 = IF SoftFails(FileOf(final_files[i])) THEN 0 ELSE 1

C3_Witness ==
    /\ pc = "done" /\ ret = "Ok"
    /\ \E i \in 1..Len(final_files) : SoftFails(FileOf(final_files[i]))
    /\ Len(Blocks) >= 1

\* C4: no block of the payload belongs to a file that has a zero byte among
\* its first 1024 bytes.
C4_NoBinaryBlock ==
    \A k \in 1..Len(Blocks) : ~NulInProbe(FileOf(Blocks[k].path).bytes)

C4_Witness ==
    /\ pc = "done"
    /\ \E i \in 1..Len(final_files) :
          LET b == FileOf(final_files[i]).bytes
          IN Len(b) > ProbeLen /\ b[ProbeLen] = NUL /\ \A k \in 1..(ProbeLen - 1) : b[k] # NUL
    /\ Len(Blocks) >= 1

\* C5: no retained file is larger than the configured max_size.
C5_MaxSizeEnforced ==
    \A i \in 1..Len(final_files) : Len(FileOf(final_files[i]).bytes) <= config.max_size

\* C6: a scan that hits a fatal condition (a glob that does not compile, a
\* failed git-diff query) ends with an error and emits neither the payload
\* (stdout, clipboard) nor the metrics.
C6_FatalEmitsNothing ==
    /\ pc = "failed" => ret \in Errors
    /\ ret \in Errors => pc = "failed" /\ NothingEmitted
    /\ (config.filter # NoFilter /\ ~GlobValid(config.filter)) =>
          pc \in {"start", "discovered", "failed"} /\ NothingEmitted

C6_Witness ==
    /\ pc = "failed" /\ ret = "GlobError"
    /\ discovered # {}
    /\ NothingEmitted

\* C7 as stated: the invalid-pattern error is raised with no discovery (walk
\* or git-diff query) executed.
C7_GlobErrorBeforeDiscovery ==
    ret = "GlobError" => queried = "none"

\* C7 amended: the invalid-pattern error is raised after discovery has been
\* executed and before anything is done with the discovered files: they are
\* not filtered or sorted, no tree is built, no file is processed.
C7_GlobErrorAfterDiscoveryBeforeUse ==
    ret = "GlobError" =>
        /\ queried \in {"walk", "git"}
        /\ {raw_files[i] : i \in 1..Len(raw_files)} = discovered
        /\ final_files = << >> /\ output = << >> /\ started = {}

C7_Witness ==
    /\ ret = "GlobError" /\ queried = "walk"
    /\ Cardinality(discovered) >= 2

\* C8: scanning what a scan returned changes nothing and raises no alert:
\* none of the three detectors matches in the returned text.
C8_RedactionIdempotent ==
    pass = 2 =>
        /\ ~IsMatch("generic", content) /\ ~IsMatch("openai", content) /\ ~IsMatch("aws", content)
        /\ sanitized = content
        /\ ~found_secret

C8_Witness ==
    /\ pass = 2 /\ scan_pc = "returned"
    /\ colorize
    /\ \E i \in 1..Len(content) : HasAt(content, i, GenericToken(colorize))

RECURSIVE RedactValuesFrom(_, _, _)
\* The text with the secret of every generic match, and nothing else,
\* replaced by the generic token.
RedactValuesFrom(s, from, col) ==
    LET i == FirstMatchFrom("generic", s, from)
    IN IF i = 0 THEN SubSeq(s, from, Len(s))
       ELSE LET m == GenericAt(s, i)
            IN SubSeq(s, from, m.vstart - 1) \o GenericToken(col)
               \o SubSeq(s, m.vend, m.end - 1) \o RedactValuesFrom(s, m.end, col)

\* C9: the generic detector changes a text only by putting the generic token
\* in place of the secret between the quotes of each match.
C9_OnlyValueReplaced ==
    (pass = 1 /\ scan_pc = "openai") => sanitized = RedactValuesFrom(content, 1, colorize)

\* The text with the line-number prefix put before every line and every
\* line terminator (or its absence) kept.
NumberedKeepingTerminators(s, col) ==
    LET ends == LineEnds(s)
        n == Cardinality(ends)
        End[k \in 0..n] == IF k = 0 THEN 0
                           ELSE CHOOSE j \in ends : j > End[k - 1] /\ \A x \in ends : x > End[k - 1] => j <= x
    IN Concat([k \in 1..n |-> WhiteDimmed(LineNum(k), col) \o <<" ">>
                              \o SubSeq(s, End[k - 1] + 1, Min(End[k], Len(s)))])

\* C10: the block of a file in which no detector matches holds the file's
\* text unchanged, or, with line numbers on, the file's text with only the
\* line-number prefix added to each line.
C10_CleanFileUnchanged ==
    \A k \in 1..Len(Blocks) :
        LET b == FileOf(Blocks[k].path).bytes
        IN (~IsMatch("generic", b) /\ ~IsMatch("openai", b) /\ ~IsMatch("aws", b)) =>
              Blocks[k].text = IF config.numbers THEN NumberedKeepingTerminators(b, colorize) ELSE b

\* C11: the token count of the payload metrics is the token count of the
\* whole payload string (context, tree, titles, headers or tags, contents),
\* taken once when the payload is assembled and reported with the payload's
\* length; before assembly there is no count.
C11_MetricsCountWholePayload ==
    /\ pc \notin AfterAssembly => final_token_count = 0 /\ metrics = << >>
    /\ pc \in AfterAssembly =>
         final_token_count = TokenCount(PayloadText(output, config.format, colorize))
    /\ metrics # << >> =>
         /\ pc = "done"
         /\ metrics[1].tokens = TokenCount(PayloadText(output, config.format, colorize))
         /\ metrics[1].chars = Len(PayloadText(output, config.format, colorize))

C11_Witness ==
    /\ pc = "done" /\ metrics # << >>
    /\ Len(Blocks) >= 2
    /\ Len(output) > Len(Blocks) + 1
    /\ metrics[1].tokens > Blocks[1].tokens + Blocks[2].tokens

\* C12: when --copy is given and the clipboard cannot be opened or written,
\* the payload still reaches the user another way (stdout), the metrics are
\* reported and scan returns Ok.
C12_ClipboardFailureFallsBack ==
    (pc = "done" /\ config.copy /\ clipboard = << >>) =>
        /\ stdout = <<PayloadText(output, config.format, colorize)>>
        /\ metrics # << >>
        /\ ret = "Ok"

====
